---- MODULE Spec2Model ----
(***************************************************************************)
(* Model of sales2.py: the monthly aggregation and growth-forecast         *)
(* pipeline of the sales dashboard.  The script is run top to bottom on    *)
(* every page load; a change of a sidebar widget reruns it.                *)
(*                                                                         *)
(* Numbers: 'Total Amount' sums are integers.  Every float of the script   *)
(* is modelled as an exact rational extended with the IEEE special values  *)
(* NaN and +/-inf (records [k, n, d]); rounding is not modelled.           *)
(***************************************************************************)
EXTENDS Integers, Sequences, FiniteSets, TLC

\* ------------------------------------------------------------------ bounds
\* rows of the file
MaxRows == 3

\* the values a cell of the file can hold
Categories == <<"Beauty", "Clothing">>
Genders == <<"Female">>
Amounts == <<0, 1, 2>>
\* raw 'Date' cells, the text "a/b/y" as <<a, b, y>>
RawDates == <<<<15, 1, 2023>>, <<20, 12, 2023>>, <<5, 1, 2024>>>>
\* a row whose 'Date' cell is no date
BadRow ==
    [Date |-> <<31, 2, 2023>>, Product_Category |-> "Beauty",
     Gender |-> "Female", Total_Amount |-> 2]

\* ------------------------------------------------------- float arithmetic
RECURSIVE GCD(_, _)
GCD(a, b) == IF b = 0 THEN a ELSE GCD(b, a % b)

Abs(x) == IF x < 0 THEN -x ELSE x

NaN == [k |-> "nan", n |-> 0, d |-> 0]
Inf(s) == [k |-> "inf", n |-> s, d |-> 0]

\* the rational n/d (d # 0) in lowest terms with a positive denominator
Rat(n, d) ==
    LET g == GCD(Abs(n), Abs(d))
        s == IF d < 0 THEN -1 ELSE 1
    IN  [k |-> "fin", n |-> s * (n \div g), d |-> s * (d \div g)]

Fin(n) == [k |-> "fin", n |-> n, d |-> 1]

Sign(x) == IF x.n > 0 THEN 1 ELSE IF x.n < 0 THEN -1 ELSE 0

IsFinite(x) == x.k = "fin"

FNeg(x) == IF x.k = "nan" THEN NaN ELSE [x EXCEPT !.n = -x.n]

FAdd(x, y) ==
    IF x.k = "nan" \/ y.k = "nan" THEN NaN
    ELSE IF x.k = "inf" /\ y.k = "inf"
         THEN IF x.n = y.n THEN x ELSE NaN
    ELSE IF x.k = "inf" THEN x
    ELSE IF y.k = "inf" THEN y
    ELSE Rat(x.n * y.d + y.n * x.d, x.d * y.d)

FSub(x, y) == FAdd(x, FNeg(y))

FMul(x, y) ==
    IF x.k = "nan" \/ y.k = "nan" THEN NaN
    ELSE IF x.k = "inf" \/ y.k = "inf"
         THEN IF Sign(x) * Sign(y) = 0 THEN NaN ELSE Inf(Sign(x) * Sign(y))
    ELSE Rat(x.n * y.n, x.d * y.d)

\* IEEE division; a zero divisor is +0 (sums of non-negative integers)
FDiv(x, y) ==
    IF x.k = "nan" \/ y.k = "nan" THEN NaN
    ELSE IF x.k = "inf"
         THEN IF y.k = "inf" THEN NaN
              ELSE Inf(IF Sign(y) < 0 THEN -x.n ELSE x.n)
    ELSE IF y.k = "inf" THEN Fin(0)
    ELSE IF y.n = 0
         THEN IF x.n = 0 THEN NaN ELSE Inf(Sign(x))
    ELSE Rat(x.n * y.d, x.d * y.n)

\* x > y as the floats compare: False when either side is NaN
FGt(x, y) ==
    /\ x.k # "nan"
    /\ y.k # "nan"
    /\ IF x.k = "inf" THEN x.n = 1 /\ ~(y.k = "inf" /\ y.n = 1)
       ELSE IF y.k = "inf" THEN y.n = -1
       ELSE x.n * y.d > y.n * x.d

FLt(x, y) == FGt(y, x)

\* pd.notna
NotNa(x) == x.k # "nan"

\* ------------------------------------------------------------ calendar
MonthNames == <<"January", "February", "March", "April", "May", "June", "July",
                "August", "September", "October", "November", "December">>
MonthAbbrs == <<"Jan", "Feb", "Mar", "Apr", "May", "Jun", "Jul",
                "Aug", "Sep", "Oct", "Nov", "Dec">>

NaT == [y |-> 0, m |-> 0, d |-> 0]

IsLeap(y) == (y % 4 = 0 /\ y % 100 # 0) \/ y % 400 = 0

DaysInMonth(y, m) ==
    IF m = 2 THEN (IF IsLeap(y) THEN 29 ELSE 28)
    ELSE IF m \in {4, 6, 9, 11} THEN 30 ELSE 31

\* pd.to_datetime(cell, dayfirst=True, errors='coerce') of the text "a/b/y":
\* day a, month b; a cell that is no calendar date becomes NaT.  (The one
\* malformed cell of RawDates is no date with the month first either.)
ToDatetime(raw) ==
    IF raw[2] \in 1..12 /\ raw[1] \in 1..DaysInMonth(raw[3], raw[2])
    THEN [y |-> raw[3], m |-> raw[2], d |-> raw[1]]
    ELSE NaT

\* .dt.to_period('M').dt.to_timestamp(): the first day of the date's month
ToMonthPeriod(date) == [y |-> date.y, m |-> date.m, d |-> 1]

\* strftime('%b %Y'), strftime('%B'), strftime('%B %Y')
StrfAbbrYear(ts) == <<MonthAbbrs[ts.m], ts.y>>
StrfMonthName(ts) == MonthNames[ts.m]
StrfNameYear(ts) == <<MonthNames[ts.m], ts.y>>

NoLabel == <<"N/A", 0>>

\* chronological position of a timestamp (days are 1..31)
Ord(ts) == (ts.y * 12 + (ts.m - 1)) * 32 + ts.d

\* ts - pd.DateOffset(months=1) and ts + pd.DateOffset(months=1); the day
\* is clipped to the length of the target month
MinusOneMonth(ts) ==
    LET y == IF ts.m = 1 THEN ts.y - 1 ELSE ts.y
        m == IF ts.m = 1 THEN 12 ELSE ts.m - 1
        dm == DaysInMonth(y, m)
    IN  [y |-> y, m |-> m, d |-> IF ts.d > dm THEN dm ELSE ts.d]

PlusOneMonth(ts) ==
    LET y == IF ts.m = 12 THEN ts.y + 1 ELSE ts.y
        m == IF ts.m = 12 THEN 1 ELSE ts.m + 1
        dm == DaysInMonth(y, m)
    IN  [y |-> y, m |-> m, d |-> IF ts.d > dm THEN dm ELSE ts.d]

\* ------------------------------------------------------------ the table
\* lines 18-20: read_csv, to_datetime, dropna(subset=['Date'])
ReadCsv(file) ==
    LET parsed == [i \in 1..Len(file) |->
                     [Date |-> ToDatetime(file[i].Date),
                      Product_Category |-> file[i].Product_Category,
                      Gender |-> file[i].Gender,
                      Total_Amount |-> file[i].Total_Amount]]
        HasDate(r) == r.Date # NaT
    IN  SelectSeq(parsed, HasDate)

\* lines 25-27: Month_Period, Month_Label, Month_Name
FeatureEngineering(rows) ==
    [i \in 1..Len(rows) |->
       LET mp == ToMonthPeriod(rows[i].Date)
       IN  [Date |-> rows[i].Date,
            Product_Category |-> rows[i].Product_Category,
            Gender |-> rows[i].Gender,
            Total_Amount |-> rows[i].Total_Amount,
            Month_Period |-> mp,
            Month_Label |-> StrfAbbrYear(mp),
            Month_Name |-> StrfMonthName(mp)]]

\* the display filter without its category condition
FilteredDfAnyCategory(d, cat, gen, mon) ==
    LET Keep(r) == r.Gender \in gen /\ r.Month_Name \in mon
    IN  SelectSeq(d, Keep)

\* the display filter without its month condition
FilteredDfAnyMonth(d, cat, gen, mon) ==
    LET Keep(r) == r.Product_Category \in cat /\ r.Gender \in gen
    IN  SelectSeq(d, Keep)

\* lines 69-73
FilteredDf(d, cat, gen, mon) ==
    LET Keep(r) == /\ r.Product_Category \in cat
                   /\ r.Gender \in gen
                   /\ r.Month_Name \in mon
    IN  SelectSeq(d, Keep)

\* lines 79-82
BaseDf(d, cat, gen) ==
    LET Keep(r) == r.Product_Category \in cat /\ r.Gender \in gen
    IN  SelectSeq(d, Keep)

RECURSIVE SumAmounts(_)
SumAmounts(rows) ==
    IF rows = <<>> THEN 0 ELSE Head(rows).Total_Amount + SumAmounts(Tail(rows))

RECURSIVE AscendingSeq(_)
AscendingSeq(S) ==
    IF S = {} THEN <<>>
    ELSE LET lo == CHOOSE p \in S : \A q \in S : Ord(p) <= Ord(q)
         IN  <<lo>> \o AscendingSeq(S \ {lo})

\* .groupby('Month_Period')['Total Amount'].sum().reset_index(): one row per
\* distinct key, keys ascending (groupby sorts its keys)
GroupBySum(rows) ==
    LET keys == AscendingSeq({rows[i].Month_Period : i \in 1..Len(rows)})
    IN  [j \in 1..Len(keys) |->
           LET InGroup(r) == r.Month_Period = keys[j]
           IN  [Month_Period |-> keys[j],
                Total_Amount |-> SumAmounts(SelectSeq(rows, InGroup))]]

\* .sort_values('Month_Period'): stable insertion sort
RECURSIVE InsertSorted(_, _)
InsertSorted(r, sorted) ==
    IF sorted = <<>> THEN <<r>>
    ELSE IF Ord(Head(sorted).Month_Period) <= Ord(r.Month_Period)
         THEN <<Head(sorted)>> \o InsertSorted(r, Tail(sorted))
         ELSE <<r>> \o sorted

\* sort_values(..., ascending=False)
RECURSIVE SortValuesDescending(_)
SortValuesDescending(seq) ==
    IF seq = <<>> THEN <<>>
    ELSE LET hi == CHOOSE i \in 1..Len(seq) :
                     \A j \in 1..Len(seq) :
                        Ord(seq[j].Month_Period) <= Ord(seq[i].Month_Period)
         IN  <<seq[hi]>> \o
             SortValuesDescending(
                 [j \in 1..(Len(seq) - 1) |->
                    IF j < hi THEN seq[j] ELSE seq[j + 1]])

RECURSIVE SortValues(_)
SortValues(seq) ==
    IF seq = <<>> THEN <<>>
    ELSE InsertSorted(seq[Len(seq)], SortValues(SubSeq(seq, 1, Len(seq) - 1)))

\* the change taken relative to the current row instead of the previous one
PctChangeOverCurrent(col) ==
    [i \in 1..Len(col) |->
       IF i = 1 THEN NaN
       ELSE FSub(Fin(1), FDiv(Fin(col[i - 1]), Fin(col[i])))]

\* Series.pct_change(): x / x.shift(1) - 1, NaN in the first row
PctChange(col) ==
    [i \in 1..Len(col) |->
       IF i = 1 THEN NaN
       ELSE FSub(FDiv(Fin(col[i]), Fin(col[i - 1])), Fin(1))]

\* lines 78-89
MonthlyBase(d, cat, gen) ==
    LET s == SortValues(GroupBySum(BaseDf(d, cat, gen)))
        g == PctChange([i \in 1..Len(s) |-> s[i].Total_Amount])
    IN  [i \in 1..Len(s) |->
           [Month_Period |-> s[i].Month_Period,
            Total_Amount |-> s[i].Total_Amount,
            Growth_Rate |-> g[i]]]

\* lines 94-102
MonthlySales(fdf) ==
    LET s == SortValues(GroupBySum(fdf))
    IN  [i \in 1..Len(s) |->
           [Month_Period |-> s[i].Month_Period,
            Total_Amount |-> s[i].Total_Amount,
            Month_Label |-> StrfAbbrYear(s[i].Month_Period)]]

\* Series.sum() / Series.mean() of a float column, NaN skipped
RECURSIVE FSum(_)
FSum(col) == IF col = <<>> THEN Fin(0) ELSE FAdd(Head(col), FSum(Tail(col)))

\* a mean that counts a NaN as a zero (fillna(0) before the mean)
FMeanNaNAsZero(col) ==
    LET filled == [i \in 1..Len(col) |-> IF NotNa(col[i]) THEN col[i] ELSE Fin(0)]
    IN  FDiv(FSum(filled), Fin(Len(col)))

FMean(col) ==
    LET present == SelectSeq(col, NotNa)
    IN  IF present = <<>> THEN NaN
        ELSE FDiv(FSum(present), Fin(Len(present)))

AmountCol(series) == [i \in 1..Len(series) |-> Fin(series[i].Total_Amount)]
GrowthCol(series) == [i \in 1..Len(series) |-> series[i].Growth_Rate]

\* --------------------------------------------------- KPI calculations
\* lines 107-115
KpiDefaults(ms) ==
    [total_revenue |-> FSum(AmountCol(ms)),
     avg_monthly_revenue |-> FMean(AmountCol(ms)),
     previous_month_revenue |-> Fin(0),
     next_month_revenue |-> Fin(0),
     expected_growth |-> Fin(0),
     previous_month_label |-> NoLabel,
     next_month_label |-> NoLabel]

\* a slip the base series exists to prevent: the growth rate of the selected
\* month taken from the display series' own month-over-month change
ForecastFromDisplay(defaults, ms, mb) ==
    IF ms = <<>> THEN defaults
    ELSE
      LET selected_month == ms[Len(ms)].Month_Period
          prev_month == MinusOneMonth(selected_month)
          IsPrev(r) == r.Month_Period = prev_month
          IsCurr(r) == r.Month_Period = selected_month
          prev_row == SelectSeq(mb, IsPrev)
          curr_row == SelectSeq(mb, IsCurr)
      IN  IF prev_row = <<>> \/ curr_row = <<>> THEN defaults
          ELSE
            LET prev_rev == Fin(prev_row[1].Total_Amount)
                growth_rate ==
                    PctChange([i \in 1..Len(ms) |-> ms[i].Total_Amount])[Len(ms)]
                labelled ==
                    [defaults EXCEPT
                       !.previous_month_revenue = prev_rev,
                       !.previous_month_label = StrfNameYear(prev_month),
                       !.next_month_label =
                           StrfNameYear(PlusOneMonth(selected_month))]
            IN  IF NotNa(growth_rate)
                THEN [labelled EXCEPT
                        !.next_month_revenue =
                            FMul(prev_rev, FAdd(Fin(1), growth_rate)),
                        !.expected_growth = FMul(growth_rate, Fin(100))]
                ELSE labelled

\* a slip of indentation: lines 132-133 one level out, so the labels are set
\* whenever the display series is non-empty
ForecastLabelsDedented(defaults, ms, mb) ==
    IF ms = <<>> THEN defaults
    ELSE
      LET selected_month == ms[Len(ms)].Month_Period
          prev_month == MinusOneMonth(selected_month)
          IsPrev(r) == r.Month_Period = prev_month
          IsCurr(r) == r.Month_Period = selected_month
          prev_row == SelectSeq(mb, IsPrev)
          curr_row == SelectSeq(mb, IsCurr)
          labelled ==
              [defaults EXCEPT
                 !.previous_month_label = StrfNameYear(prev_month),
                 !.next_month_label =
                     StrfNameYear(PlusOneMonth(selected_month))]
      IN  IF prev_row = <<>> \/ curr_row = <<>> THEN labelled
          ELSE
            LET prev_rev == Fin(prev_row[1].Total_Amount)
                growth_rate == curr_row[1].Growth_Rate
                revenued == [labelled EXCEPT !.previous_month_revenue = prev_rev]
            IN  IF NotNa(growth_rate)
                THEN [revenued EXCEPT
                        !.next_month_revenue =
                            FMul(prev_rev, FAdd(Fin(1), growth_rate)),
                        !.expected_growth = FMul(growth_rate, Fin(100))]
                ELSE revenued

\* lines 117-133
Forecast(defaults, ms, mb) ==
    IF ms = <<>> THEN defaults
    ELSE
      LET selected_month == ms[Len(ms)].Month_Period
          prev_month == MinusOneMonth(selected_month)
          IsPrev(r) == r.Month_Period = prev_month
          IsCurr(r) == r.Month_Period = selected_month
          prev_row == SelectSeq(mb, IsPrev)
          curr_row == SelectSeq(mb, IsCurr)
      IN  IF prev_row = <<>> \/ curr_row = <<>> THEN defaults
          ELSE
            LET prev_rev == Fin(prev_row[1].Total_Amount)
                growth_rate == curr_row[1].Growth_Rate
                labelled ==
                    [defaults EXCEPT
                       !.previous_month_revenue = prev_rev,
                       !.previous_month_label = StrfNameYear(prev_month),
                       !.next_month_label =
                           StrfNameYear(PlusOneMonth(selected_month))]
            IN  IF NotNa(growth_rate)
                THEN [labelled EXCEPT
                        !.next_month_revenue =
                            FMul(prev_rev, FAdd(Fin(1), growth_rate)),
                        !.expected_growth = FMul(growth_rate, Fin(100))]
                ELSE labelled

\* lines 107-133
KpiCalculation(ms, mb) == Forecast(KpiDefaults(ms), ms, mb)

\* lines 69-133 as one function of the table and the three selections
KpiOf(d, cat, gen, mon) ==
    KpiCalculation(MonthlySales(FilteredDf(d, cat, gen, mon)),
                   MonthlyBase(d, cat, gen))

\* --------------------------------------------------------- insights
\* idxmax / idxmin: the first row holding the extreme value
IdxMax(ms) ==
    CHOOSE i \in 1..Len(ms) :
        /\ \A j \in 1..Len(ms) : ms[j].Total_Amount <= ms[i].Total_Amount
        /\ \A j \in 1..(i - 1) : ms[j].Total_Amount < ms[i].Total_Amount

IdxMin(ms) ==
    CHOOSE i \in 1..Len(ms) :
        /\ \A j \in 1..Len(ms) : ms[j].Total_Amount >= ms[i].Total_Amount
        /\ \A j \in 1..(i - 1) : ms[j].Total_Amount > ms[i].Total_Amount

\* the square of Series.std() (ddof = 1) of a column of two or more rows
SampleVariance(col) ==
    LET mean == FMean(col)
        sq == [i \in 1..Len(col) |->
                 FMul(FSub(col[i], mean), FSub(col[i], mean))]
    IN  FDiv(FSum(sq), Fin(Len(col) - 1))

NoInsight ==
    [shown |-> "none", trend |-> "", avg_growth_rate |-> Fin(0),
     best_month |-> NoLabel, worst_month |-> NoLabel, stability |-> ""]

\* the trend test written >= 0
InsightsTrendAtZero(ms, mb, avg_rev) ==
    IF Len(ms) >= 2
    THEN LET revenue_var == SampleVariance(AmountCol(ms))
             avg_growth_rate == FMul(FMean(GrowthCol(mb)), Fin(100))
         IN  [shown |-> "insights",
              trend |-> IF ~FLt(avg_growth_rate, Fin(0)) /\ NotNa(avg_growth_rate)
                        THEN "positive" ELSE "negative",
              avg_growth_rate |-> avg_growth_rate,
              best_month |-> ms[IdxMax(ms)].Month_Label,
              worst_month |-> ms[IdxMin(ms)].Month_Label,
              stability |-> IF /\ FGt(avg_rev, Fin(0))
                               /\ FLt(revenue_var, FMul(avg_rev, avg_rev))
                            THEN "stable" ELSE "fluctuating"]
    ELSE [NoInsight EXCEPT !.shown = "info"]

\* lines 174-193; revenue_std < avg_monthly_revenue is compared on the
\* squares (neither side is negative)
Insights(ms, mb, avg_rev) ==
    IF Len(ms) >= 2
    THEN LET revenue_var == SampleVariance(AmountCol(ms))
             avg_growth_rate == FMul(FMean(GrowthCol(mb)), Fin(100))
         IN  [shown |-> "insights",
              trend |-> IF FGt(avg_growth_rate, Fin(0))
                        THEN "positive" ELSE "negative",
              avg_growth_rate |-> avg_growth_rate,
              best_month |-> ms[IdxMax(ms)].Month_Label,
              worst_month |-> ms[IdxMin(ms)].Month_Label,
              stability |-> IF /\ FGt(avg_rev, Fin(0))
                               /\ FLt(revenue_var, FMul(avg_rev, avg_rev))
                            THEN "stable" ELSE "fluctuating"]
    ELSE [NoInsight EXCEPT !.shown = "info"]

\* ------------------------------------------------------------ the state
VARIABLES
    csv,              \* retail_sales_dataset.csv, read-only
    pc,               \* the statement group the script run is at
    first_run,        \* no widget has a session value yet
    df,
    category_filter, gender_filter, month_filter,
    filtered_df, monthly_base, monthly_sales,
    kpi,              \* the seven variables of lines 107-133
    insight           \* what lines 174-193 render

vars == <<csv, pc, first_run, df, category_filter, gender_filter, month_filter,
          filtered_df, monthly_base, monthly_sales, kpi, insight>>

\* the raw rows, numbered 0 .. NumRawRows - 1: the well-dated rows (the
\* amount is the most significant digit, the date the least), then BadRow
NumGoodRows == Len(RawDates) * Len(Categories) * Len(Genders) * Len(Amounts)

NumRawRows == NumGoodRows + 1

RawRow(i) ==
    LET nd == Len(RawDates)
        nc == Len(Categories)
        ng == Len(Genders)
    IN  IF i = NumGoodRows THEN BadRow
        ELSE [Date |-> RawDates[(i % nd) + 1],
              Product_Category |-> Categories[((i \div nd) % nc) + 1],
              Gender |-> Genders[((i \div (nd * nc)) % ng) + 1],
              Total_Amount |-> Amounts[(i \div (nd * nc * ng)) + 1]]

\* the files of n rows whose row numbers are non-decreasing and >= lo:
\* every multiset of at most MaxRows raw rows is some file's content
RECURSIVE RowNumbers(_, _)
RowNumbers(n, lo) ==
    IF n = 0 THEN {<<>>}
    ELSE UNION {{<<i>> \o t : t \in RowNumbers(n - 1, i)} :
                  i \in lo..(NumRawRows - 1)}

Files ==
    UNION {{[j \in 1..n |-> RawRow(nums[j])] : nums \in RowNumbers(n, 0)} :
             n \in 0..MaxRows}

NoKpi ==
    [total_revenue |-> Fin(0), avg_monthly_revenue |-> Fin(0),
     previous_month_revenue |-> Fin(0), next_month_revenue |-> Fin(0),
     expected_growth |-> Fin(0),
     previous_month_label |-> NoLabel, next_month_label |-> NoLabel]

\* lines 50, 56, 62: the options of the three multiselects
UniqueCategories(d) == {d[i].Product_Category : i \in 1..Len(d)}
UniqueGenders(d) == {d[i].Gender : i \in 1..Len(d)}
UniqueMonthNames(d) == {d[i].Month_Name : i \in 1..Len(d)}

Init ==
    /\ csv \in Files
    /\ pc = "load"
    /\ first_run = TRUE
    /\ df = <<>>
    /\ category_filter = {}
    /\ gender_filter = {}
    /\ month_filter = {}
    /\ filtered_df = <<>>
    /\ monthly_base = <<>>
    /\ monthly_sales = <<>>
    /\ kpi = NoKpi
    /\ insight = NoInsight

\* lines 18-27
LoadData ==
    /\ pc = "load"
    /\ df' = FeatureEngineering(ReadCsv(csv))
    /\ pc' = "sidebar"
    /\ UNCHANGED <<csv, first_run, category_filter, gender_filter, month_filter,
                   filtered_df, monthly_base, monthly_sales, kpi, insight>>

\* lines 48-64: a multiselect returns its default (every option) until the
\* user has changed it, and the user's selection afterwards
SidebarFilters ==
    /\ pc = "sidebar"
    /\ IF first_run
       THEN /\ category_filter' = UniqueCategories(df)
            /\ gender_filter' = UniqueGenders(df)
            /\ month_filter' = UniqueMonthNames(df)
       ELSE UNCHANGED <<category_filter, gender_filter, month_filter>>
    /\ first_run' = FALSE
    /\ pc' = "filtered"
    /\ UNCHANGED <<csv, df, filtered_df, monthly_base, monthly_sales, kpi,
                   insight>>

\* lines 69-73
FilteredData ==
    /\ pc = "filtered"
    /\ filtered_df' = FilteredDf(df, category_filter, gender_filter, month_filter)
    /\ pc' = "base"
    /\ UNCHANGED <<csv, first_run, df, category_filter, gender_filter,
                   month_filter, monthly_base, monthly_sales, kpi, insight>>

\* lines 78-89
MonthlyBaseForGrowth ==
    /\ pc = "base"
    /\ monthly_base' = MonthlyBase(df, category_filter, gender_filter)
    /\ pc' = "sales"
    /\ UNCHANGED <<csv, first_run, df, category_filter, gender_filter,
                   month_filter, filtered_df, monthly_sales, kpi, insight>>

\* lines 94-102
MonthlySalesDisplay ==
    /\ pc = "sales"
    /\ monthly_sales' = MonthlySales(filtered_df)
    /\ pc' = "kpi"
    /\ UNCHANGED <<csv, first_run, df, category_filter, gender_filter,
                   month_filter, filtered_df, monthly_base, kpi, insight>>

\* lines 107-146
KpiCalculations ==
    /\ pc = "kpi"
    /\ kpi' = KpiCalculation(monthly_sales, monthly_base)
    /\ pc' = "insights"
    /\ UNCHANGED <<csv, first_run, df, category_filter, gender_filter,
                   month_filter, filtered_df, monthly_base, monthly_sales,
                   insight>>

\* lines 174-193
InsightsAndDecisionSupport ==
    /\ pc = "insights"
    /\ insight' = Insights(monthly_sales, monthly_base, kpi.avg_monthly_revenue)
    /\ pc' = "done"
    /\ UNCHANGED <<csv, first_run, df, category_filter, gender_filter,
                   month_filter, filtered_df, monthly_base, monthly_sales, kpi>>

\* a widget change reruns the script from its first line in a fresh namespace
Rerun ==
    /\ pc' = "load"
    /\ df' = <<>>
    /\ filtered_df' = <<>>
    /\ monthly_base' = <<>>
    /\ monthly_sales' = <<>>
    /\ kpi' = NoKpi
    /\ insight' = NoInsight
    /\ UNCHANGED <<csv, first_run>>

Toggle(S, x) == IF x \in S THEN S \ {x} ELSE S \cup {x}

\* the user selects or deselects one option of a multiselect (lines 48-64)
ChangeCategory ==
    /\ pc = "done"
    /\ \E c \in UniqueCategories(df) :
          category_filter' = Toggle(category_filter, c)
    /\ UNCHANGED <<gender_filter, month_filter>>
    /\ Rerun

ChangeGender ==
    /\ pc = "done"
    /\ \E g \in UniqueGenders(df) :
          gender_filter' = Toggle(gender_filter, g)
    /\ UNCHANGED <<category_filter, month_filter>>
    /\ Rerun

ChangeMonth ==
    /\ pc = "done"
    /\ \E m \in UniqueMonthNames(df) :
          month_filter' = Toggle(month_filter, m)
    /\ UNCHANGED <<category_filter, gender_filter>>
    /\ Rerun

Next ==
    \/ LoadData
    \/ SidebarFilters
    \/ FilteredData
    \/ MonthlyBaseForGrowth
    \/ MonthlySalesDisplay
    \/ KpiCalculations
    \/ InsightsAndDecisionSupport
    \/ ChangeCategory
    \/ ChangeGender
    \/ ChangeMonth

Spec == Init /\ [][Next]_vars

\* =====================================================================
\* Reference quantities, taken from the rows of df and the three selections
\* alone (the 'Date' column, not the derived month columns)
\* =====================================================================
YM(ts) == ts.y * 12 + (ts.m - 1)

BaseRows(cat, gen) ==
    {i \in 1..Len(df) : df[i].Product_Category \in cat /\ df[i].Gender \in gen}

DisplayRows(cat, gen, mon) ==
    {i \in BaseRows(cat, gen) : MonthNames[df[i].Date.m] \in mon}

BaseIdx == BaseRows(category_filter, gender_filter)
DisplayIdx == DisplayRows(category_filter, gender_filter, month_filter)

RECURSIVE SumRows(_)
SumRows(S) ==
    IF S = {} THEN 0
    ELSE LET i == CHOOSE i \in S : TRUE
         IN  df[i].Total_Amount + SumRows(S \ {i})

MonthsOf(S) == {YM(df[i].Date) : i \in S}
MonthSum(S, ym) == SumRows({i \in S : YM(df[i].Date) = ym})
Max(S) == CHOOSE x \in S : \A y \in S : y <= x

\* the last month of the display series for a month selection, 0 when empty
LastMonth(mon) ==
    LET S == MonthsOf(DisplayRows(category_filter, gender_filter, mon))
    IN  IF S = {} THEN 0 ELSE Max(S)

SelectedYM == LastMonth(month_filter)
PreviousYM == SelectedYM - 1

StrictlyAscending(series) ==
    \A i \in 1..(Len(series) - 1) :
        Ord(series[i].Month_Period) < Ord(series[i + 1].Month_Period)

SeriesMonths(series) == {YM(series[i].Month_Period) : i \in 1..Len(series)}

ForecastDefaults ==
    /\ kpi.previous_month_revenue = Fin(0)
    /\ kpi.next_month_revenue = Fin(0)
    /\ kpi.expected_growth = Fin(0)
    /\ kpi.previous_month_label = NoLabel
    /\ kpi.next_month_label = NoLabel

\* ---------------------------------------------------------------- C1
\* C1 as stated: at the end of a run, every narrower month selection (same
\* category and gender selections) gives the same expected growth and the
\* same next-month revenue.
C1_NarrowerMonthsSameForecast ==
    pc = "done" =>
      \A M2 \in SUBSET month_filter :
         LET k2 == KpiOf(df, category_filter, gender_filter, M2)
         IN  /\ k2.expected_growth = kpi.expected_growth
             /\ k2.next_month_revenue = kpi.next_month_revenue

\* C1 amended: a narrower month selection under which the display series
\* still ends in the same month gives the same expected growth and the same
\* next-month revenue.
C1_NarrowerMonthsSameLastMonth ==
    pc = "done" =>
      \A M2 \in SUBSET month_filter :
         LastMonth(M2) = LastMonth(month_filter) =>
           LET k2 == KpiOf(df, category_filter, gender_filter, M2)
           IN  /\ k2.expected_growth = kpi.expected_growth
               /\ k2.next_month_revenue = kpi.next_month_revenue

C1_Witness ==
    /\ pc = "done"
    /\ Len(monthly_sales) = 3
    /\ kpi.expected_growth.k = "fin"
    /\ kpi.expected_growth.n # 0
    /\ \E M2 \in SUBSET month_filter :
          /\ M2 # month_filter
          /\ LastMonth(M2) = LastMonth(month_filter)
          /\ Cardinality(MonthsOf(DisplayRows(category_filter, gender_filter, M2))) = 2

\* ---------------------------------------------------------------- C2
\* C2: when the display series is non-empty and the base series holds both
\* the selected month and the calendar month before it, the base row before
\* the selected month's row is that previous month, its growth rate is
\* (cur - prev) / prev of the two base sums, and the forecast is
\* prev * (1 + rate) with expected growth rate * 100 when the rate is not
\* NaN, and zero for both otherwise.
C2_GrowthReadFromBase ==
    (/\ pc = "done"
     /\ DisplayIdx # {}
     /\ PreviousYM \in MonthsOf(BaseIdx)
     /\ SelectedYM \in MonthsOf(BaseIdx))
    =>
      LET cur == Fin(MonthSum(BaseIdx, SelectedYM))
          prv == Fin(MonthSum(BaseIdx, PreviousYM))
          g == FDiv(FSub(cur, prv), prv)
      IN  /\ \E j \in 2..Len(monthly_base) :
                /\ YM(monthly_base[j].Month_Period) = SelectedYM
                /\ YM(monthly_base[j - 1].Month_Period) = PreviousYM
                /\ monthly_base[j].Growth_Rate = g
          /\ kpi.previous_month_revenue = prv
          /\ IF NotNa(g)
             THEN /\ kpi.next_month_revenue = FMul(prv, FAdd(Fin(1), g))
                  /\ kpi.expected_growth = FMul(g, Fin(100))
             ELSE /\ kpi.next_month_revenue = Fin(0)
                  /\ kpi.expected_growth = Fin(0)

\* the base series has a gap elsewhere and the rate is a non-zero number
C2_Witness ==
    /\ pc = "done"
    /\ DisplayIdx # {}
    /\ PreviousYM \in MonthsOf(BaseIdx)
    /\ Len(monthly_base) = 3
    /\ YM(monthly_base[2].Month_Period) > YM(monthly_base[1].Month_Period) + 1
    /\ kpi.expected_growth.k = "fin"
    /\ kpi.expected_growth.n # 0
    /\ kpi.next_month_revenue.k = "fin"
    /\ kpi.next_month_revenue.n > 0

\* ---------------------------------------------------------------- C3
\* C3: when the display series is non-empty and the base series lacks the
\* selected month or the calendar month before it, the run ends with
\* previous revenue, next revenue and expected growth 0 and both labels N/A.
C3_MissingMonthKeepsDefaults ==
    (/\ pc = "done"
     /\ DisplayIdx # {}
     /\ \/ PreviousYM \notin MonthsOf(BaseIdx)
        \/ SelectedYM \notin MonthsOf(BaseIdx))
    => ForecastDefaults

\* the selected month has a growth rate in the base series, yet the month
\* before it is missing
C3_Witness ==
    /\ pc = "done"
    /\ DisplayIdx # {}
    /\ PreviousYM \notin MonthsOf(BaseIdx)
    /\ \E j \in 2..Len(monthly_base) :
          /\ YM(monthly_base[j].Month_Period) = SelectedYM
          /\ monthly_base[j].Growth_Rate.k = "fin"
          /\ monthly_base[j].Growth_Rate.n # 0
    /\ ForecastDefaults

\* ---------------------------------------------------------------- C4
\* C4: when no row passes the three filters, total revenue is 0, the average
\* monthly revenue is not NaN, the forecast values are 0 and the labels N/A.
C4_EmptyDisplayNoNaN ==
    (pc = "done" /\ DisplayIdx = {}) =>
      /\ kpi.total_revenue = Fin(0)
      /\ NotNa(kpi.avg_monthly_revenue)
      /\ ForecastDefaults

\* ---------------------------------------------------------------- C5
\* C5: at the end of every run the next-month revenue and the expected
\* growth are finite numbers.
C5_ForecastFinite ==
    pc = "done" =>
      /\ IsFinite(kpi.next_month_revenue)
      /\ IsFinite(kpi.expected_growth)

\* ---------------------------------------------------------------- C6
\* C6: the base and the display series list their months strictly ascending
\* (so none twice), each as the first day of the month, and hold a month iff
\* a row passing the series' filters is dated in it.
C6_SeriesAscendingExact ==
    pc = "done" =>
      /\ StrictlyAscending(monthly_base)
      /\ StrictlyAscending(monthly_sales)
      /\ \A i \in 1..Len(monthly_base) : monthly_base[i].Month_Period.d = 1
      /\ \A i \in 1..Len(monthly_sales) : monthly_sales[i].Month_Period.d = 1
      /\ SeriesMonths(monthly_base) = MonthsOf(BaseIdx)
      /\ SeriesMonths(monthly_sales) = MonthsOf(DisplayIdx)
      /\ Len(monthly_base) = Cardinality(MonthsOf(BaseIdx))
      /\ Len(monthly_sales) = Cardinality(MonthsOf(DisplayIdx))

\* rows out of date order in the file, a month filtered out of the display
C6_Witness ==
    /\ pc = "done"
    /\ Len(monthly_base) = 3
    /\ Len(monthly_sales) = 2
    /\ \E i \in 1..Len(df) : \E j \in 1..Len(df) :
          i < j /\ Ord(df[i].Date) > Ord(df[j].Date)

\* ---------------------------------------------------------------- C7
\* C7: total revenue is the sum of 'Total Amount' over exactly the rows whose
\* category, gender and month name are selected.
C7_RevenueConserved ==
    pc = "done" => kpi.total_revenue = Fin(SumRows(DisplayIdx))

\* two rows grouped into one month, another row filtered out
C7_Witness ==
    /\ pc = "done"
    /\ kpi.total_revenue.n > 0
    /\ Cardinality(DisplayIdx) > Len(monthly_sales)
    /\ Cardinality(DisplayIdx) < Len(df)
    /\ month_filter # {MonthNames[df[i].Date.m] : i \in 1..Len(df)}

\* ---------------------------------------------------------------- C8
\* month-over-month rate of row i >= 2 of the base series, from its sums
BaseRate(i) ==
    LET cur == Fin(monthly_base[i].Total_Amount)
        prv == Fin(monthly_base[i - 1].Total_Amount)
    IN  FDiv(FSub(cur, prv), prv)

RECURSIVE SumBaseRates(_)
SumBaseRates(S) ==
    IF S = {} THEN Fin(0)
    ELSE LET i == CHOOSE i \in S : TRUE
         IN  FAdd(BaseRate(i), SumBaseRates(S \ {i}))

\* C8: the first row of the base series has no growth rate, and the average
\* growth rate narrated is 100 times the mean of the rates of rows 2..n of the
\* base series that are not NaN: their sum over their number, the first row
\* counted in neither.
C8_AverageOverDefinedBaseRates ==
    pc = "done" =>
      /\ monthly_base # <<>> => monthly_base[1].Growth_Rate = NaN
      /\ insight.shown = "insights" =>
           LET defined == {i \in 2..Len(monthly_base) : NotNa(BaseRate(i))}
               mean == IF defined = {} THEN NaN
                       ELSE FDiv(SumBaseRates(defined), Fin(Cardinality(defined)))
           IN  insight.avg_growth_rate = FMul(mean, Fin(100))

\* the base series is longer than the display series, the average a number
C8_Witness ==
    /\ pc = "done"
    /\ insight.shown = "insights"
    /\ Len(monthly_base) = 3
    /\ Len(monthly_sales) = 2
    /\ insight.avg_growth_rate.k = "fin"
    /\ insight.avg_growth_rate.n # 0
    /\ BaseRate(2) # BaseRate(3)

\* ---------------------------------------------------------------- C9
\* C9: insights are narrated iff the display series has two or more months,
\* the notice is shown otherwise, and the narrated trend is "positive" iff
\* the average growth rate is greater than 0 and "negative" otherwise.
C9_NarrationAndTrend ==
    pc = "done" =>
      /\ insight.shown = "insights" <=> Cardinality(MonthsOf(DisplayIdx)) >= 2
      /\ insight.shown \in {"insights", "info"}
      /\ insight.shown = "info" => insight.trend = ""
      /\ insight.shown = "insights" =>
           LET a == insight.avg_growth_rate
               positive == \/ a.k = "fin" /\ a.n > 0
                           \/ a.k = "inf" /\ a.n = 1
           IN  /\ insight.trend = "positive" <=> positive
               /\ insight.trend = "negative" <=> ~positive

\* an average growth rate of exactly 0 is narrated as negative
C9_Witness ==
    /\ pc = "done"
    /\ insight.shown = "insights"
    /\ insight.avg_growth_rate = Fin(0)
    /\ insight.trend = "negative"

\* --------------------------------------------------------------- C10
\* C10: every month of the display series is a month of the base series with
\* the same sum, so the selected month is in the base series, and a non-empty
\* display series leaves the forecast at its defaults only when the month
\* before the selected one is missing from the base series.
C10_DisplaySubMapOfBase ==
    pc = "done" =>
      /\ \A i \in 1..Len(monthly_sales) :
            \E j \in 1..Len(monthly_base) :
               /\ monthly_base[j].Month_Period = monthly_sales[i].Month_Period
               /\ monthly_base[j].Total_Amount = monthly_sales[i].Total_Amount
      /\ monthly_sales # <<>> =>
            LET sel == monthly_sales[Len(monthly_sales)].Month_Period
            IN  /\ YM(sel) \in SeriesMonths(monthly_base)
                /\ kpi.previous_month_label = NoLabel =>
                      YM(sel) - 1 \notin SeriesMonths(monthly_base)

\* a month filtered out of the display, a category filtered out of both
\* series, and the forecast at its defaults
C10_Witness ==
    /\ pc = "done"
    /\ monthly_sales # <<>>
    /\ Len(monthly_sales) < Len(monthly_base)
    /\ Cardinality(BaseIdx) < Len(df)
    /\ monthly_sales[1].Total_Amount > 0
    /\ kpi.previous_month_label = NoLabel

====
